---------------------------- MODULE Spec2Model ----------------------------
(***************************************************************************)
(* Model of the tick-driven simulation server in src/server.js: the grid, *)
(* the breadth-first path finder, the unit registry, the socket command   *)
(* handlers and the tick loop.                                             *)
(*                                                                         *)
(* hp is a JavaScript number that is compared with 0 after repeated       *)
(* subtractions of atk * 0.2, so it is kept as the IEEE 754 double the     *)
(* source computes (see "Doubles").  The other fractions are kept in       *)
(* tenths:                                                                 *)
(*   progress,spd : 0.2 is 2, 0.4 is 4, the commit threshold 1.0 is 10     *)
(*                  (the sums from 0 reach 1.0 at the same tick in both)   *)
(*   pp           : 50 is 500, the per-tick 0.1 is 1 (pp is never read)    *)
(* A cell is named by its id (q * MAP_H + r), as createMap numbers it; a   *)
(* path is a sequence of cell ids.                                         *)
(***************************************************************************)
EXTENDS Integers, Sequences, FiniteSets, TLC

VARIABLES
  players,        \* gameState.players: <<[id, info]>> in key insertion order
  hexes,          \* gameState.hexes: <<>> before createMap, then id+1 -> owner
  units,          \* gameState.units: sequence of unit records
  countries,      \* gameState.countries: faction -> [pp, mp, eq]
  isRunning,      \* gameState.isRunning
  unitIdCounter,  \* the global spawn counter
  crashed,        \* an uncaught exception has ended the process
  tickIdx,        \* position of the tick callback: 0 = not in a tick,
                  \* k >= 1 = unit k of the forEach is next (cleanup after last)
  ticks,          \* number of ticks started (bounds the exploration)
  aiOrders,       \* number of times the AI fallback's random test passed
  pfStart,        \* findPath probe: start cell id
  pfEnd,          \* findPath probe: end cell id
  pfPath          \* findPath probe: the result

vars == <<players, hexes, units, countries, isRunning, unitIdCounter,
          crashed, tickIdx, ticks, aiOrders, pfStart, pfEnd, pfPath>>

---------------------------------------------------------------------------
(* Game constants                                                          *)

MAP_W == 20
MAP_H == 12

NumHexes == MAP_W * MAP_H

NoHex == 0 - 1            \* getHex found nothing (undefined)
NoPath == <<NoHex>>       \* findPath returned null

KIN == "KIN"
TAK == "TAK"
Factions == {KIN, TAK}

ROLES == <<"Supreme", "Production", "Marshal_1", "Marshal_2", "Marshal_3",
           "Marshal_4", "Marshal_5", "Marshal_6">>

UNIT_TYPES ==
  [inf  |-> [hp |-> 100, atk |-> 12, def |-> 20, spd |-> 2, cost |-> 100],
   tank |-> [hp |-> 150, atk |-> 30, def |-> 15, spd |-> 4, cost |-> 300]]

TypeKeys == DOMAIN UNIT_TYPES

\* the property names every object literal inherits from Object.prototype:
\* UNIT_TYPES[k] and gameState.countries[k] are defined for these k too, but
\* have no cost and no mp
ObjectPrototypeKeys ==
  {"constructor", "toString", "toLocaleString", "valueOf", "hasOwnProperty",
   "isPrototypeOf", "propertyIsEnumerable", "__proto__", "__defineGetter__",
   "__defineSetter__", "__lookupGetter__", "__lookupSetter__"}

---------------------------------------------------------------------------
(* Doubles.  A JavaScript number below 1024 in magnitude whose last bit is *)
(* worth 2^-54 or more: a sign and a magnitude counted in units of 2^-54,  *)
(* the magnitude written in four limbs of 16 bits, least significant       *)
(* first.  Sums and products are rounded to 53 significant bits, ties to   *)
(* even, as IEEE 754 does.                                                 *)

Limb == 65536

\* carries moved up; the top limb takes what is left
Norm(m) ==
  LET c1 == m[1] \div Limb
      c2 == (m[2] + c1) \div Limb
      c3 == (m[3] + c2) \div Limb
  IN  <<m[1] % Limb, (m[2] + c1) % Limb, (m[3] + c2) % Limb, m[4] + c3>>

AddMag(a, b) == Norm(<<a[1] + b[1], a[2] + b[2], a[3] + b[3], a[4] + b[4]>>)

GeqMag(a, b) ==
  IF a[4] # b[4] THEN a[4] > b[4]
  ELSE IF a[3] # b[3] THEN a[3] > b[3]
  ELSE IF a[2] # b[2] THEN a[2] > b[2]
  ELSE a[1] >= b[1]

\* a - b for a >= b, with borrows
SubMag(a, b) ==
  LET d1 == a[1] - b[1]
      b1 == IF d1 < 0 THEN 1 ELSE 0
      d2 == a[2] - b[2] - b1
      b2 == IF d2 < 0 THEN 1 ELSE 0
      d3 == a[3] - b[3] - b2
      b3 == IF d3 < 0 THEN 1 ELSE 0
  IN  <<d1 + b1 * Limb, d2 + b2 * Limb, d3 + b3 * Limb, a[4] - b[4] - b3>>

MulMag(k, a) == Norm(<<k * a[1], k * a[2], k * a[3], k * a[4]>>)

RECURSIVE BitLength(_)
BitLength(n) == IF n = 0 THEN 0 ELSE 1 + BitLength(n \div 2)

RECURSIVE Pow2(_)
Pow2(n) == IF n = 0 THEN 1 ELSE 2 * Pow2(n - 1)

\* the magnitude rounded to 53 significant bits, ties to even: bit 53 is
\* bit 5 of the top limb, and the bits that go are in the lowest limb
RoundBits(m) ==
  LET e == IF BitLength(m[4]) > 5 THEN BitLength(m[4]) - 5 ELSE 0
      q == Pow2(e)
      rest == m[1] % q
      kept == m[1] - rest
      up == rest * 2 > q \/ (rest * 2 = q /\ (m[1] \div q) % 2 = 1)
  IN  IF e = 0 \/ rest = 0 THEN m
      ELSE IF up THEN Norm(<<kept + q, m[2], m[3], m[4]>>)
      ELSE <<kept, m[2], m[3], m[4]>>

\* (the operand is bound once, then rounded)
RoundMag(m) == CHOOSE r \in {RoundBits(v) : v \in {m}} : TRUE

ZeroMag == <<0, 0, 0, 0>>

\* the integer n, 0 <= n < 1024
Dbl(n) == [neg |-> FALSE, mag |-> <<0, 0, 0, n * 64>>]

\* the literals 0.5 and 0.2 (0.2 is 3602879701896397 * 2^-54)
Half == [neg |-> FALSE, mag |-> <<0, 0, 0, 32>>]
Fifth == [neg |-> FALSE, mag |-> <<52429, 52428, 52428, 12>>]

SumOf(x, y) ==
  IF x.neg = y.neg
    THEN [neg |-> x.neg, mag |-> RoundMag(AddMag(x.mag, y.mag))]
  ELSE IF x.mag = y.mag THEN [neg |-> FALSE, mag |-> ZeroMag]
  ELSE IF GeqMag(x.mag, y.mag)
    THEN [neg |-> x.neg, mag |-> RoundMag(SubMag(x.mag, y.mag))]
  ELSE [neg |-> y.neg, mag |-> RoundMag(SubMag(y.mag, x.mag))]

\* x + y (the operands are bound once)
DblAdd(x, y) == CHOOSE z \in {SumOf(a, b) : a \in {x}, b \in {y}} : TRUE

Negated(y) == IF y.mag = ZeroMag THEN y ELSE [neg |-> ~y.neg, mag |-> y.mag]

\* x - y
DblSub(x, y) == CHOOSE z \in {SumOf(a, Negated(b)) : a \in {x}, b \in {y}} : TRUE

\* k * x for an integer k, 0 <= k < 1024
DblMul(k, x) ==
  CHOOSE z \in {[neg |-> a.neg, mag |-> RoundMag(MulMag(k, a.mag))] : a \in {x}} : TRUE

\* x > 0
Positive(x) == ~x.neg /\ x.mag # ZeroMag

\* x in tenths, rounded to the nearest integer
Tenths(x) ==
  LET m == MulMag(10, x.mag)
      n == (m[4] \div 64) + (IF m[4] % 64 >= 32 THEN 1 ELSE 0)
  IN  IF x.neg THEN 0 - n ELSE n

---------------------------------------------------------------------------
(* Hex system                                                              *)

HexId(q, r) == q * MAP_H + r
HexQ(id) == id \div MAP_H
\* (mutant) the row decoded with the width of the grid
HexRByWidth(id) == id % MAP_W

HexR(id) == id % MAP_H

\* createMap: 240 cells, column-major ids, left half KIN, right half TAK
createMap == [i \in 1..NumHexes |-> IF 2 * HexQ(i - 1) < MAP_W THEN KIN ELSE TAK]

\* getHex on a given hexes array: the id of the cell at (q, r), or NoHex
getHexIn(hx, q, r) ==
  IF q >= 0 /\ q < MAP_W /\ r >= 0 /\ r < MAP_H /\ HexId(q, r) + 1 \in DOMAIN hx
    THEN HexId(q, r)
    ELSE NoHex

\* the six candidate coordinates, in the order the source lists them
Candidates(h) ==
  LET q == HexQ(h)
      r == HexR(h)
      d == IF r % 2 = 1 THEN 1 ELSE 0 - 1
  IN  << <<q + 1, r>>, <<q - 1, r>>, <<q, r + 1>>, <<q, r - 1>>,
         <<q + d, r + 1>>, <<q + d, r - 1>> >>

\* getNeighbors: the candidates that exist, in candidate order
getNeighborsIn(hx, h) ==
  LET c == Candidates(h)
      ids == [i \in 1..6 |-> getHexIn(hx, c[i][1], c[i][2])]
  IN  SelectSeq(ids, LAMBDA x : x # NoHex)

\* the for-loop of findPath over one cell's neighbours: st = [queue, visited]
RECURSIVE VisitNeighbors(_, _, _, _)
VisitNeighbors(ns, i, path, st) ==
  IF i > Len(ns) THEN st
  ELSE IF ns[i] \in st.visited
    THEN VisitNeighbors(ns, i + 1, path, st)
    ELSE VisitNeighbors(ns, i + 1, path,
           [queue   |-> Append(st.queue, [hex |-> ns[i], path |-> Append(path, ns[i])]),
            visited |-> st.visited \cup {ns[i]}])

\* path.length > 15: a node this deep is not expanded
RangeLimit == 15

\* (mutant) a node at depth 15 is not expanded either
BfsStepShortRange(hx, endHex, st) ==
  IF st.done THEN st
  ELSE IF st.head > Len(st.queue)
    THEN [st EXCEPT !.done = TRUE, !.result = NoPath]
  ELSE LET cur == st.queue[st.head]
       IN  IF cur.hex = endHex
             THEN [st EXCEPT !.done = TRUE, !.result = cur.path]
           ELSE IF Len(cur.path) >= RangeLimit
             THEN [st EXCEPT !.head = st.head + 1]
           ELSE LET v == VisitNeighbors(getNeighborsIn(hx, cur.hex), 1, cur.path,
                                        [queue |-> st.queue, visited |-> st.visited])
                IN  [st EXCEPT !.head = st.head + 1,
                               !.queue = v.queue, !.visited = v.visited]

\* one iteration of the while-loop of findPath on the loop state
\* st = [queue, head, visited, done, result]: head indexes the entry that
\* queue.shift() takes next; done is set by either return statement
BfsStep(hx, endHex, st) ==
  IF st.done THEN st
  ELSE IF st.head > Len(st.queue)
    THEN [st EXCEPT !.done = TRUE, !.result = NoPath]
  ELSE LET cur == st.queue[st.head]
       IN  IF cur.hex = endHex
             THEN [st EXCEPT !.done = TRUE, !.result = cur.path]
           ELSE IF Len(cur.path) > RangeLimit
             THEN [st EXCEPT !.head = st.head + 1]
           ELSE LET v == VisitNeighbors(getNeighborsIn(hx, cur.hex), 1, cur.path,
                                        [queue |-> st.queue, visited |-> st.visited])
                IN  [st EXCEPT !.head = st.head + 1,
                               !.queue = v.queue, !.visited = v.visited]

\* n consecutive iterations of the while-loop (split in halves so that the
\* evaluation does not nest n deep)
RECURSIVE BfsRun(_, _, _, _)
BfsRun(hx, endHex, n, st) ==
  IF n = 0 THEN st
  ELSE IF n = 1 THEN BfsStep(hx, endHex, st)
  ELSE LET mid == BfsRun(hx, endHex, n \div 2, st)
       IN  IF mid.done THEN mid ELSE BfsRun(hx, endHex, n - (n \div 2), mid)

\* findPath(startHex, endHex): <<>> when either is missing, the route (cell
\* ids, start excluded) when found, NoPath for null
findPathIn(hx, startHex, endHex) ==
  IF startHex = NoHex \/ endHex = NoHex THEN <<>>
  ELSE BfsRun(hx, endHex, NumHexes + 1,
         [queue   |-> << [hex |-> startHex, path |-> <<>>] >>,
          head    |-> 1,
          visited |-> {startHex},
          done    |-> FALSE,
          result  |-> NoPath]).result

---------------------------------------------------------------------------
(* The world: gameState and unitIdCounter as one record, so that a handler *)
(* is a function from the world before to the world after.                 *)

World ==
  [players |-> players, hexes |-> hexes, units |-> units,
   countries |-> countries, isRunning |-> isRunning,
   unitIdCounter |-> unitIdCounter, crashed |-> crashed]

\* an uncaught TypeError: the process ends with the state as it stands
Throw(w) == [w EXCEPT !.crashed = TRUE]

InitialCountry == [pp |-> 500, mp |-> 5000, eq |-> 2000]

\* the state when the module has been loaded (lines 43-52, 129)
Loaded ==
  [players |-> <<>>, hexes |-> <<>>, units |-> <<>>,
   countries |-> [f \in Factions |-> InitialCountry],
   isRunning |-> FALSE, unitIdCounter |-> 0, crashed |-> FALSE]

getHex(w, q, r) == getHexIn(w.hexes, q, r)

\* Routes between the cells the bounded inputs use most, computed once with
\* findPathIn on the full grid and looked up afterwards; any other pair is
\* computed on the spot.  The grid never changes once createMap has run.
\* (@@ makes TLC build the table when it is first read.)
MemoStarts == {HexId(q, r) : q \in {1, 2, MAP_W - 3, MAP_W - 2}, r \in 2..7}
MemoEnds == {HexId(q, r) : q \in {1, 2, 3, MAP_W - 2}, r \in 2..4}
RouteMemo ==
  [p \in MemoStarts \X MemoEnds |-> findPathIn(createMap, p[1], p[2])] @@ <<>>

findPath(w, startHex, endHex) ==
  IF Len(w.hexes) = NumHexes /\ <<startHex, endHex>> \in DOMAIN RouteMemo
    THEN RouteMemo[<<startHex, endHex>>]
    ELSE findPathIn(w.hexes, startHex, endHex)

\* `Marshal_${divNum}`
Marshal(divNum) == ROLES[divNum + 2]

\* (mutant) the division taken modulo 5 instead of 6
spawnUnitMod5(w, faction, q, r, typeKey) ==
  LET h == getHex(w, q, r)
      u == [id         |-> w.unitIdCounter,
            faction    |-> faction,
            type       |-> typeKey,
            hp         |-> Dbl(UNIT_TYPES[typeKey].hp),
            q          |-> HexQ(h),
            r          |-> HexR(h),
            path       |-> <<>>,
            state      |-> "idle",
            progress   |-> 0,
            assignment |-> Marshal((w.unitIdCounter % 5) + 1)]
  IN  IF h = NoHex THEN w
      ELSE [w EXCEPT !.units = Append(w.units, u),
                     !.unitIdCounter = w.unitIdCounter + 1]

\* spawnUnit(faction, q, r, typeKey), typeKey a key of UNIT_TYPES
spawnUnit(w, faction, q, r, typeKey) ==
  LET h == getHex(w, q, r)
      divNum == (w.unitIdCounter % 6) + 1
      u == [id         |-> w.unitIdCounter,
            faction    |-> faction,
            type       |-> typeKey,
            hp         |-> Dbl(UNIT_TYPES[typeKey].hp),
            q          |-> HexQ(h),
            r          |-> HexR(h),
            path       |-> <<>>,
            state      |-> "idle",
            progress   |-> 0,
            assignment |-> Marshal(divNum)]
  IN  IF h = NoHex THEN w
      ELSE [w EXCEPT !.units = Append(w.units, u),
                     !.unitIdCounter = w.unitIdCounter + 1]

\* the two seeding loops of resetGame: i = 0..5 for KIN, then for TAK
RECURSIVE SeedUnits(_, _, _, _)
SeedUnits(w, faction, q, i) ==
  IF i >= 6 THEN w
  ELSE SeedUnits(spawnUnit(w, faction, q, 2 + i, "inf"), faction, q, i + 1)

resetGame(w) ==
  LET w0 == [w EXCEPT !.hexes = createMap,
                      !.units = <<>>,
                      !.countries = [f \in Factions |-> InitialCountry],
                      !.isRunning = TRUE]
  IN  SeedUnits(SeedUnits(w0, KIN, 2, 0), TAK, MAP_W - 3, 0)

---------------------------------------------------------------------------
(* Players.  info is what the client sent with joinGame: an object with a  *)
(* faction and a role (any strings), or nothing at all (undefined).        *)

NoInfo == [defined |-> FALSE, faction |-> "", role |-> ""]
Info(faction, role) == [defined |-> TRUE, faction |-> faction, role |-> role]

PlayerIdx(ps, s) == {i \in DOMAIN ps : ps[i].id = s}

\* gameState.players[socket.id]; NoInfo when the key is absent as well
PlayerOf(w, s) ==
  IF PlayerIdx(w.players, s) = {} THEN NoInfo
  ELSE w.players[CHOOSE i \in PlayerIdx(w.players, s) : TRUE].info

\* gameState.players[socket.id] = info: an existing key keeps its place
SetPlayer(ps, s, info) ==
  IF PlayerIdx(ps, s) = {} THEN Append(ps, [id |-> s, info |-> info])
  ELSE [i \in DOMAIN ps |-> IF ps[i].id = s THEN [id |-> s, info |-> info] ELSE ps[i]]

\* delete gameState.players[socket.id]
DeletePlayer(ps, s) == SelectSeq(ps, LAMBDA e : e.id # s)

joinGame(w, s, info) ==
  LET w1 == [w EXCEPT !.players = SetPlayer(w.players, s, info)]
  IN  IF ~w1.isRunning THEN resetGame(w1) ELSE w1

disconnect(w, s) == [w EXCEPT !.players = DeletePlayer(w.players, s)]

\* (mutant) the role test without the faction test
CommandsAnyFaction(p, u) == p.role = "Supreme" \/ p.role = u.assignment

\* the role test shared by orderMove, orderFrontline and the AI fallback
Commands(p, u) ==
  p.faction = u.faction /\ (p.role = "Supreme" \/ p.role = u.assignment)

---------------------------------------------------------------------------
(* recruit                                                                 *)

\* (mutant) the manpower is not compared with 100
recruitNoMpCheck(w, s, typeKey, r) ==
  LET p == PlayerOf(w, s)
  IN  IF ~p.defined \/ (p.role # "Production" /\ p.role # "Supreme") THEN w
      ELSE IF typeKey \notin TypeKeys \cup ObjectPrototypeKeys THEN Throw(w)
      ELSE IF p.faction \notin Factions \cup ObjectPrototypeKeys THEN Throw(w)
      ELSE IF p.faction \notin Factions \/ typeKey \notin TypeKeys THEN w
      ELSE LET c == w.countries[p.faction]
               cost == UNIT_TYPES[typeKey].cost
               q == IF p.faction = KIN THEN 1 ELSE MAP_W - 2
           IN  IF c.eq >= cost
                 THEN spawnUnit(
                        [w EXCEPT !.countries[p.faction].mp = c.mp - 100,
                                  !.countries[p.faction].eq = c.eq - cost],
                        p.faction, q, r, typeKey)
                 ELSE w

recruit(w, s, typeKey, r) ==
  LET p == PlayerOf(w, s)
  IN  IF ~p.defined \/ (p.role # "Production" /\ p.role # "Supreme") THEN w
      \* UNIT_TYPES[type].cost, c.mp: a TypeError when the object is undefined
      ELSE IF typeKey \notin TypeKeys \cup ObjectPrototypeKeys THEN Throw(w)
      ELSE IF p.faction \notin Factions \cup ObjectPrototypeKeys THEN Throw(w)
      \* c.mp or cost is undefined (an inherited key): the comparison is false
      ELSE IF p.faction \notin Factions \/ typeKey \notin TypeKeys THEN w
      ELSE LET c == w.countries[p.faction]
               cost == UNIT_TYPES[typeKey].cost
               q == IF p.faction = KIN THEN 1 ELSE MAP_W - 2
           IN  IF c.mp >= 100 /\ c.eq >= cost
                 THEN spawnUnit(
                        [w EXCEPT !.countries[p.faction].mp = c.mp - 100,
                                  !.countries[p.faction].eq = c.eq - cost],
                        p.faction, q, r, typeKey)
                 ELSE w

---------------------------------------------------------------------------
(* orderMove and orderFrontline.  A payload is what the client sent: none  *)
(* at all, or an object.  Its unitIds / hexIds field is an array of        *)
(* numbers, a string (a sequence of UTF-16 code units), binary data (a     *)
(* Buffer, a sequence of bytes), or a value that has neither includes nor  *)
(* map: undefined, null, a number, a boolean, a plain object.              *)

List(ids) == [kind |-> "array", ids |-> ids]
Text(codes) == [kind |-> "string", ids |-> codes]
Bytes(bytes) == [kind |-> "binary", ids |-> bytes]
Methodless == [kind |-> "none", ids |-> <<>>]

\* String(n) for an integer n >= 0, as code units ("0" is 48)
RECURSIVE Decimal(_)
Decimal(n) ==
  IF n < 10 THEN <<48 + n>> ELSE Decimal(n \div 10) \o <<48 + (n % 10)>>

\* String.prototype.includes: needle occurs in hay
Infix(needle, hay) ==
  \E k \in 0..(Len(hay) - Len(needle)) : SubSeq(hay, k + 1, k + Len(needle)) = needle

\* v.includes(x) for a number x; v is an array, a string or a Buffer.  A
\* string converts x to its decimal text and looks for it as a substring.
Includes(v, x) ==
  IF v.kind = "string" THEN Infix(Decimal(x), v.ids)
  ELSE \E i \in DOMAIN v.ids : v.ids[i] = x

\* (mutant) a unit with no route to the target is halted
OrderUnitHaltsOnNoRoute(w, u, endHex) ==
  LET path == findPath(w, getHex(w, u.q, u.r), endHex)
  IN  IF path # NoPath
        THEN [u EXCEPT !.path = path, !.state = "moving"]
        ELSE [u EXCEPT !.path = <<>>, !.state = "idle"]

\* the body of both forEach callbacks once the target cell is known
OrderUnit(w, u, endHex) ==
  LET path == findPath(w, getHex(w, u.q, u.r), endHex)
  IN  IF path # NoPath
        THEN [u EXCEPT !.path = path, !.state = "moving"]
        ELSE u

orderMove(w, s, pl) ==
  IF ~pl.present THEN Throw(w)                  \* destructuring undefined
  ELSE LET p == PlayerOf(w, s)
           targetHex == getHex(w, pl.targetQ, pl.targetR)
       IN  IF ~p.defined THEN w
           ELSE IF targetHex = NoHex THEN w
           ELSE IF pl.unitIds.kind = "none"
             THEN (IF Len(w.units) > 0 THEN Throw(w) ELSE w)  \* unitIds.includes
           ELSE [w EXCEPT !.units =
                   [i \in DOMAIN w.units |->
                      IF Includes(pl.unitIds, w.units[i].id) /\ Commands(p, w.units[i])
                        THEN OrderUnit(w, w.units[i], targetHex)
                        ELSE w.units[i]]]

\* hexIds.map(find).filter(h => h).  On a Buffer, map stores each result (a
\* cell object or undefined) as a byte, which is 0, and filter drops them all.
FrontlineTargets(w, hexIds) ==
  IF hexIds.kind = "binary" THEN <<>>
  ELSE SelectSeq(hexIds.ids, LAMBDA id : id >= 0 /\ id + 1 \in DOMAIN w.hexes)

\* the forEach of orderFrontline from unit i on, targetIdx as it stands
RECURSIVE FrontlineLoop(_, _, _, _, _, _)
FrontlineLoop(w, p, unitIds, targets, i, targetIdx) ==
  IF i > Len(w.units) THEN w
  ELSE LET u == w.units[i]
       IN  IF Includes(unitIds, u.id) /\ Commands(p, u)
             THEN FrontlineLoop(
                    [w EXCEPT !.units[i] =
                       OrderUnit(w, u, targets[(targetIdx % Len(targets)) + 1])],
                    p, unitIds, targets, i + 1, targetIdx + 1)
             ELSE FrontlineLoop(w, p, unitIds, targets, i + 1, targetIdx)

orderFrontline(w, s, pl) ==
  IF ~pl.present THEN Throw(w)                  \* destructuring undefined
  ELSE LET p == PlayerOf(w, s)
       IN  IF ~p.defined THEN w
           \* hexIds.map: a string has no map either
           ELSE IF pl.hexIds.kind \in {"none", "string"} THEN Throw(w)
           ELSE LET targets == FrontlineTargets(w, pl.hexIds)
                IN  IF Len(targets) = 0 THEN w
                    ELSE IF pl.unitIds.kind = "none"
                      THEN (IF Len(w.units) > 0 THEN Throw(w) ELSE w)
                    ELSE FrontlineLoop(w, p, pl.unitIds, targets, 1, 0)

---------------------------------------------------------------------------
(* The tick callback: resources, one step per unit of the forEach, cleanup *)

\* lines 172-178; the caller has checked isRunning
tickResources(w) ==
  [w EXCEPT !.countries =
     [f \in Factions |-> [w.countries[f] EXCEPT !.pp = @ + 1, !.eq = @ + 1]]]

\* Object.values(players).some(...) from entry i on: "yes", "no", or "throw"
\* when the scan reaches an undefined info before a match
RECURSIVE hasPlayerFrom(_, _, _)
hasPlayerFrom(ps, u, i) ==
  IF i > Len(ps) THEN "no"
  ELSE IF ~ps[i].info.defined THEN "throw"
  ELSE IF Commands(ps[i].info, u) THEN "yes"
  ELSE hasPlayerFrom(ps, u, i + 1)

hasPlayer(w, u) == hasPlayerFrom(w.players, u, 1)

\* lines 189-197: the AI fallback has drawn targetR = row for unit i
aiOrder(w, i, row) ==
  LET u == w.units[i]
      targetQ == IF u.faction = KIN THEN MAP_W - 2 ELSE 1
      path == findPath(w, getHex(w, u.q, u.r), getHex(w, targetQ, row))
  IN  IF path # NoPath
        THEN [w EXCEPT !.units[i].path = path, !.units[i].state = "moving"]
        ELSE w

\* units.find(e => e.q === nextHex.q && e.r === nextHex.r && e.faction !== u.faction)
EnemiesAt(us, h, faction) ==
  {j \in DOMAIN us : us[j].q = HexQ(h) /\ us[j].r = HexR(h) /\ us[j].faction # faction}

Min(S) == CHOOSE x \in S : \A y \in S : x <= y

\* (mutant) the two damage factors exchanged
combatFactorsSwapped(w, i, e) ==
  LET u == w.units[i]
      enemy == w.units[e]
  IN  [w EXCEPT !.units[i].progress = 0,
                !.units[e].hp = DblSub(enemy.hp, DblMul(UNIT_TYPES[u.type].atk, Fifth)),
                !.units[i].hp = DblSub(u.hp, DblMul(UNIT_TYPES[enemy.type].atk, Half))]

\* (mutant) a strike that hurts neither side
combatBloodless(w, i, e) == [w EXCEPT !.units[i].progress = 0]

\* lines 209-212
combat(w, i, e) ==
  LET u == w.units[i]
      enemy == w.units[e]
  IN  [w EXCEPT !.units[i].progress = 0,
                !.units[e].hp = DblSub(enemy.hp, DblMul(UNIT_TYPES[u.type].atk, Half)),
                !.units[i].hp = DblSub(u.hp, DblMul(UNIT_TYPES[enemy.type].atk, Fifth))]

\* (mutant) the cell ahead is taken before the move is complete
advanceConquersEarly(w, i) ==
  LET u == w.units[i]
      nextHex == u.path[1]
      progress == u.progress + UNIT_TYPES[u.type].spd
      rest == Tail(u.path)
  IN  IF progress >= 10
        THEN [w EXCEPT !.units[i].q = HexQ(nextHex),
                       !.units[i].r = HexR(nextHex),
                       !.units[i].path = rest,
                       !.units[i].progress = 0,
                       !.units[i].state = IF Len(rest) = 0 THEN "idle" ELSE "moving",
                       !.hexes[nextHex + 1] = u.faction]
        ELSE [w EXCEPT !.units[i].progress = progress,
                       !.hexes[nextHex + 1] = u.faction]

\* (mutant) a completed move leaves the progress as it is
advanceKeepsProgress(w, i) ==
  LET u == w.units[i]
      nextHex == u.path[1]
      progress == u.progress + UNIT_TYPES[u.type].spd
      rest == Tail(u.path)
  IN  IF progress >= 10
        THEN [w EXCEPT !.units[i].q = HexQ(nextHex),
                       !.units[i].r = HexR(nextHex),
                       !.units[i].path = rest,
                       !.units[i].progress = progress,
                       !.units[i].state = IF Len(rest) = 0 THEN "idle" ELSE "moving",
                       !.hexes[nextHex + 1] = u.faction]
        ELSE [w EXCEPT !.units[i].progress = progress]

\* lines 219-233
advance(w, i) ==
  LET u == w.units[i]
      nextHex == u.path[1]
      progress == u.progress + UNIT_TYPES[u.type].spd
      rest == Tail(u.path)
  IN  IF progress >= 10
        THEN [w EXCEPT !.units[i].q = HexQ(nextHex),
                       !.units[i].r = HexR(nextHex),
                       !.units[i].path = rest,
                       !.units[i].progress = 0,
                       !.units[i].state = IF Len(rest) = 0 THEN "idle" ELSE "moving",
                       !.hexes[nextHex + 1] = u.faction]
        ELSE [w EXCEPT !.units[i].progress = progress]

\* lines 201-235 (the enemy found is bound once, then struck)
moveUnit(w, i) ==
  LET u == w.units[i]
  IN  IF u.state = "moving" /\ Len(u.path) > 0
        THEN LET enemies == EnemiesAt(w.units, u.path[1], u.faction)
             IN  IF enemies # {}
                   THEN CHOOSE x \in {combat(w, i, e) : e \in {Min(enemies)}} : TRUE
                   ELSE advance(w, i)
        ELSE w

\* (mutant) the AI fallback does not look at the connected players
DrawsRandomUnattendedOrNot(w, i) == w.units[i].state = "idle"

\* whether the forEach callback for unit i draws Math.random()
DrawsRandom(w, i) == hasPlayer(w, w.units[i]) = "no" /\ w.units[i].state = "idle"

\* the forEach callback for unit i; rnd = [ai, row] is what Math.random() gave:
\* ai is "Math.random() < 0.05", row is Math.floor(Math.random() * MAP_H)
\* (the state the AI fallback leaves is bound once, then moved on)
tickUnit(w, i, rnd) ==
  IF hasPlayer(w, w.units[i]) = "throw" THEN Throw(w)
  ELSE CHOOSE x \in
         {moveUnit(v, i) :
            v \in {IF DrawsRandom(w, i) /\ rnd.ai THEN aiOrder(w, i, rnd.row) ELSE w}} :
         TRUE

\* (mutant) units with 10 hp or less are removed as well
cleanupWounded(w) == [w EXCEPT !.units = SelectSeq(w.units, LAMBDA u : Tenths(u.hp) > 100)]

\* line 239
cleanupDead(w) == [w EXCEPT !.units = SelectSeq(w.units, LAMBDA u : Positive(u.hp))]

NoAI == [ai |-> FALSE, row |-> 0]
AI(row) == [ai |-> TRUE, row |-> row]

\* a whole tick in which Math.random() never falls below 0.05
RECURSIVE tickUnitsQuiet(_, _)
tickUnitsQuiet(w, i) ==
  IF i > Len(w.units) THEN w
  ELSE LET w1 == tickUnit(w, i, NoAI)
       IN  IF w1.crashed THEN w1 ELSE tickUnitsQuiet(w1, i + 1)

tickQuiet(w) ==
  IF ~w.isRunning THEN w
  ELSE LET w1 == tickUnitsQuiet(tickResources(w), 1)
       IN  IF w1.crashed THEN w1 ELSE cleanupDead(w1)

RECURSIVE ticksQuiet(_, _)
ticksQuiet(w, n) ==
  IF n = 0 THEN w
  ELSE IF n = 1 THEN tickQuiet(w)
  ELSE LET half == ticksQuiet(w, n \div 2)
       IN  IF half.crashed THEN half ELSE ticksQuiet(half, n - (n \div 2))

---------------------------------------------------------------------------
(* Actions.  A socket handler runs only between ticks (one thread), and    *)
(* nothing runs once an uncaught exception has ended the process.          *)

\* the handler's result becomes the next state (bound once, then copied)
Commit(result) ==
  \E w \in {result} :
    /\ players' = w.players
    /\ hexes' = w.hexes
    /\ units' = w.units
    /\ countries' = w.countries
    /\ isRunning' = w.isRunning
    /\ unitIdCounter' = w.unitIdCounter
    /\ crashed' = w.crashed

probe == <<pfStart, pfEnd, pfPath>>
world == <<players, hexes, units, countries, isRunning, unitIdCounter, crashed>>

BetweenTicks == ~crashed /\ tickIdx = 0

JoinGame(s, info) ==
  /\ BetweenTicks
  /\ Commit(joinGame(World, s, info))
  /\ UNCHANGED <<tickIdx, ticks, aiOrders, probe>>

Disconnect(s) ==
  /\ BetweenTicks
  /\ Commit(disconnect(World, s))
  /\ UNCHANGED <<tickIdx, ticks, aiOrders, probe>>

Recruit(s, typeKey, r) ==
  /\ BetweenTicks
  /\ Commit(recruit(World, s, typeKey, r))
  /\ UNCHANGED <<tickIdx, ticks, aiOrders, probe>>

OrderMove(s, pl) ==
  /\ BetweenTicks
  /\ Commit(orderMove(World, s, pl))
  /\ UNCHANGED <<tickIdx, ticks, aiOrders, probe>>

OrderFrontline(s, pl) ==
  /\ BetweenTicks
  /\ Commit(orderFrontline(World, s, pl))
  /\ UNCHANGED <<tickIdx, ticks, aiOrders, probe>>

\* the callback starts: return at once when the match is not running
TickBegin(maxTicks) ==
  /\ BetweenTicks
  /\ ticks < maxTicks
  /\ ticks' = ticks + 1
  /\ IF isRunning
       THEN Commit(tickResources(World)) /\ tickIdx' = 1
       ELSE UNCHANGED <<world, tickIdx>>
  /\ UNCHANGED <<aiOrders, probe>>

\* what Math.random() may give unit i: nothing is drawn unless the unit is
\* idle and unattended
Draws(w, i, maxAI, rows) ==
  IF DrawsRandom(w, i) /\ aiOrders < maxAI
    THEN {NoAI} \cup {AI(row) : row \in rows}
    ELSE {NoAI}

TickUnit(maxAI, rows) ==
  /\ ~crashed
  /\ tickIdx \in 1..Len(units)
  /\ \E rnd \in Draws(World, tickIdx, maxAI, rows) :
       /\ Commit(tickUnit(World, tickIdx, rnd))
       /\ aiOrders' = IF rnd.ai THEN aiOrders + 1 ELSE aiOrders
  /\ tickIdx' = tickIdx + 1
  /\ UNCHANGED <<ticks, probe>>

\* cleanup and broadcast end the callback
TickEnd ==
  /\ ~crashed
  /\ tickIdx = Len(units) + 1
  /\ Commit(cleanupDead(World))
  /\ tickIdx' = 0
  /\ UNCHANGED <<ticks, aiOrders, probe>>

Start(w) ==
  /\ players = w.players
  /\ hexes = w.hexes
  /\ units = w.units
  /\ countries = w.countries
  /\ isRunning = w.isRunning
  /\ unitIdCounter = w.unitIdCounter
  /\ crashed = w.crashed
  /\ tickIdx = 0
  /\ ticks = 0
  /\ aiOrders = 0

NoProbe == pfStart = 0 /\ pfEnd = 0 /\ pfPath = <<>>

---------------------------------------------------------------------------
(* Spec: command authority.  Players join with a faction and a role, order *)
(* units about, leave; the match ticks, and the AI fallback may order an   *)
(* unattended idle unit towards the enemy's spawn column.                  *)

NumSockets == 2
Sockets == 1..NumSockets

MaxTicks == 1
MaxAIOrders == 1
AIRows == {3}

Payload(unitIds, targetQ, targetR) ==
  [present |-> TRUE, unitIds |-> unitIds, targetQ |-> targetQ, targetR |-> targetR]

FrontPayload(unitIds, hexIds) ==
  [present |-> TRUE, unitIds |-> unitIds, hexIds |-> hexIds]

JoinInputs ==
  { <<1, Info(KIN, "Marshal_1")>>, <<1, Info(KIN, "Production")>>,
    <<2, Info(KIN, "Supreme")>> }

\* units 0 and 1 are KIN's Marshal_1 and Marshal_2 at (2,2) and (2,3), unit 6
\* is TAK's Marshal_1; (18,4) is out of range for unit 0 and in range for unit 1
MovePayloads ==
  { Payload(List(<<0, 1, 6>>), 3, 2),
    Payload(List(<<0, 1, 6>>), 2, 2),
    Payload(List(<<1, 0>>), MAP_W - 2, 4) }

FrontPayloads ==
  { FrontPayload(List(<<0, 1, 6>>), List(<<HexId(3, 3), 999, HexId(2, 3)>>)) }

Init == Start(Loaded) /\ NoProbe

Next ==
  \/ \E in \in JoinInputs : JoinGame(in[1], in[2])
  \/ \E s \in Sockets : Disconnect(s)
  \/ \E s \in Sockets, pl \in MovePayloads : OrderMove(s, pl)
  \/ \E s \in Sockets, pl \in FrontPayloads : OrderFrontline(s, pl)
  \/ TickBegin(MaxTicks)
  \/ TickUnit(MaxAIOrders, AIRows)
  \/ TickEnd

Spec == Init /\ [][Next]_vars

---------------------------------------------------------------------------
(* Claims on the command handlers, checked under Spec                      *)

\* the claim's own reading of "not authorized"
Unauthorized(p, u) ==
  u.faction # p.faction \/ (p.role # "Supreme" /\ p.role # u.assignment)

SameMotion(u, v) ==
  /\ u.path = v.path
  /\ u.state = v.state
  /\ u.progress = v.progress
  /\ u.q = v.q
  /\ u.r = v.r

\* the step is an orderMove or an orderFrontline from socket s
OrderStep(s) ==
  \/ \E pl \in MovePayloads : OrderMove(s, pl)
  \/ \E pl \in FrontPayloads : OrderFrontline(s, pl)

\* C1: an order leaves path, state, progress and position of every unit
\* untouched whose faction differs from the issuer's or whose assignment is
\* not the issuer's role (the issuer not being Supreme); the registry keeps
\* its units.  (A step that leaves units as it is satisfies this at once, so
\* only the others are matched against the handlers.)
C1_UnauthorizedUnitsUntouched ==
  [][\A s \in Sockets :
       (units' # units /\ OrderStep(s)) =>
         /\ Len(units') = Len(units)
         /\ \A i \in DOMAIN units :
              Unauthorized(PlayerOf(World, s), units[i]) =>
                units'[i].id = units[i].id /\ SameMotion(units[i], units'[i])]_vars

\* C1 witness: the Marshal_1 of KIN is connected, unit 0 (KIN, Marshal_1) has
\* been given a route while unit 1 (KIN, Marshal_2) and unit 6 (TAK,
\* Marshal_1), named in every order, stand idle
C1_Witness ==
  /\ PlayerOf(World, 1) = Info(KIN, "Marshal_1")
  /\ Len(units) = 12
  /\ units[1].state = "moving" /\ Len(units[1].path) > 0
  /\ units[2].state = "idle"
  /\ units[7].state = "idle"

\* the claim's own reading of "authorized"
Authorized(p, u) ==
  p.faction = u.faction /\ (p.role = "Supreme" \/ p.role = u.assignment)

Listed(pl, u) == \E k \in DOMAIN pl.unitIds.ids : pl.unitIds.ids[k] = u.id

CellOf(u) == HexId(u.q, u.r)

\* what one unit must look like after an order that sends it to endHex
OrderedTo(u, v, endHex) ==
  LET route == findPath(World, CellOf(u), endHex)
  IN  IF route # NoPath
        THEN v.path = route /\ v.state = "moving"
        ELSE v.path = u.path /\ v.state = u.state

\* the cell orderFrontline deals to unit i: the targets go round-robin over
\* the listed, authorized units in registry order
FrontlineTarget(p, pl, i) ==
  LET targets == SelectSeq(pl.hexIds.ids, LAMBDA id : id \in 0..(NumHexes - 1))
      before == {j \in 1..(i - 1) : Listed(pl, units[j]) /\ Authorized(p, units[j])}
  IN  targets[(Cardinality(before) % Len(targets)) + 1]

\* C3 (as claimed): an authorized order with a reachable target, applied to
\* a unit that has a path and non-zero progress, replaces the path by the new
\* route, resets the unit's progress to 0 and adds or removes no unit
C3_OrderResetsProgress ==
  [][\A s \in Sockets : \A pl \in MovePayloads :
       OrderMove(s, pl) =>
         \A i \in DOMAIN units :
           LET route == findPath(World, CellOf(units[i]), HexId(pl.targetQ, pl.targetR))
           IN  ( /\ Listed(pl, units[i])
                 /\ Authorized(PlayerOf(World, s), units[i])
                 /\ route # NoPath
                 /\ Len(units[i].path) > 0
                 /\ units[i].progress # 0 )
               => /\ Len(units') = Len(units)
                  /\ units'[i].path = route
                  /\ units'[i].progress = 0]_vars

\* C4: in a batch order every listed unit is decided on its own: authorized
\* and reachable gets the new route and state moving, unauthorized or
\* unreachable keeps path and state, whatever happens to the other units
C4_BatchDecidedPerUnit ==
  [][\A s \in Sockets :
       /\ \A pl \in MovePayloads :
            (units' # units /\ OrderMove(s, pl)) =>
              \A i \in DOMAIN units :
                IF Listed(pl, units[i]) /\ Authorized(PlayerOf(World, s), units[i])
                  THEN OrderedTo(units[i], units'[i], HexId(pl.targetQ, pl.targetR))
                  ELSE units'[i].path = units[i].path /\ units'[i].state = units[i].state
       /\ \A pl \in FrontPayloads :
            (units' # units /\ OrderFrontline(s, pl)) =>
              \A i \in DOMAIN units :
                IF Listed(pl, units[i]) /\ Authorized(PlayerOf(World, s), units[i])
                  THEN OrderedTo(units[i], units'[i],
                                 FrontlineTarget(PlayerOf(World, s), pl, i))
                  ELSE units'[i].path = units[i].path /\ units'[i].state = units[i].state]_vars

\* C4 witness: Supreme of KIN is connected and the batch <<1, 0>> to (18,4)
\* has been applied: unit 1 is on its way there, unit 0, for which the
\* cell is out of range, stands idle
C4_Witness ==
  /\ PlayerOf(World, 2) = Info(KIN, "Supreme")
  /\ Len(units) = 12
  /\ units[2].state = "moving"
  /\ Len(units[2].path) > 0
  /\ units[2].path[Len(units[2].path)] = HexId(MAP_W - 2, 4)
  /\ units[1].state = "idle"

---------------------------------------------------------------------------
(* SpecErr: malformed commands.  A client joins with no info object or     *)
(* with a faction that is neither KIN nor TAK, recruits a unit type that   *)
(* is not in the table, sends orders without a payload, without lists, or  *)
(* with a string or binary data where a list is expected.                  *)

NoPayload ==
  [present |-> FALSE, unitIds |-> Methodless, targetQ |-> 0, targetR |-> 0]
NoFrontPayload ==
  [present |-> FALSE, unitIds |-> Methodless, hexIds |-> Methodless]

ErrJoinInputs ==
  { <<1, Info(KIN, "Supreme")>>, <<2, NoInfo>>, <<2, Info("XXX", "Supreme")>>,
    <<2, Info("constructor", "Supreme")>> }

\* "bad" is not a key of UNIT_TYPES, "toString" is an inherited one
ErrRecruitTypes == {"inf", "bad", "toString"}
ErrRecruitRows == {0}

\* no payload; unitIds missing; a coordinate missing (no such cell);
\* unitIds the string "10", the string "x", the one-byte Buffer [0]
ErrMovePayloads ==
  { NoPayload,
    Payload(Methodless, 3, 2),
    Payload(List(<<0>>), NoHex, 2),
    Payload(Text(<<49, 48>>), 3, 2),
    Payload(Text(<<120>>), 3, 2),
    Payload(Bytes(<<0>>), 3, 2) }

\* no payload; hexIds missing; unitIds missing; no hexId names a cell;
\* unitIds the string "0"; hexIds the string "38"; hexIds the Buffer [38]
ErrFrontPayloads ==
  { NoFrontPayload,
    FrontPayload(List(<<0>>), Methodless),
    FrontPayload(Methodless, List(<<HexId(3, 2)>>)),
    FrontPayload(List(<<0>>), List(<<999>>)),
    FrontPayload(Text(<<48>>), List(<<HexId(3, 3)>>)),
    FrontPayload(List(<<0>>), Text(<<51, 56>>)),
    FrontPayload(List(<<0>>), Bytes(<<HexId(3, 2)>>)) }

MaxErrTicks == 1
MaxErrUnits == 13

ErrRecruit(s, typeKey, r) == Len(units) < MaxErrUnits /\ Recruit(s, typeKey, r)

NextErr ==
  \/ \E in \in ErrJoinInputs : JoinGame(in[1], in[2])
  \/ \E s \in Sockets : Disconnect(s)
  \/ \E s \in Sockets, t \in ErrRecruitTypes, r \in ErrRecruitRows : ErrRecruit(s, t, r)
  \/ \E s \in Sockets, pl \in ErrMovePayloads : OrderMove(s, pl)
  \/ \E s \in Sockets, pl \in ErrFrontPayloads : OrderFrontline(s, pl)
  \/ TickBegin(MaxErrTicks)
  \/ TickUnit(0, {})
  \/ TickEnd

SpecErr == Init /\ [][NextErr]_vars

\* the step is one of the malformed commands of the claim, from socket s
MalformedCommand(s) ==
  \/ \E t \in ErrRecruitTypes \ TypeKeys, r \in ErrRecruitRows : Recruit(s, t, r)
  \/ \E pl \in ErrMovePayloads : OrderMove(s, pl)
  \/ \E pl \in ErrFrontPayloads : OrderFrontline(s, pl)

\* C2 (as claimed): a malformed command changes neither units, cells nor
\* economy, and no handler and no tick ever ends in an uncaught error
C2_MalformedIsNoOp ==
  [][/\ ~crashed'
     /\ \A s \in Sockets :
          MalformedCommand(s) =>
            units' = units /\ hexes' = hexes /\ countries' = countries]_vars

---------------------------------------------------------------------------
(* SpecEcon: recruitment.  Production of KIN recruits tanks until the      *)
(* equipment runs out, Supreme of TAK recruits infantry; a Marshal and a   *)
(* client that never joined try to.                                        *)

EconJoinInputs ==
  { <<1, Info(KIN, "Production")>>, <<1, Info(KIN, "Marshal_2")>>,
    <<2, Info(TAK, "Supreme")>> }

\* who recruits what, and the row Math.random() gives
EconRecruitInputs == { <<1, "tank">>, <<2, "inf">> }
EconRecruitRows == {4}

MaxEconTicks == 1
MaxRecruits == 7

\* the registry is capped at the twelve seeded units and MaxRecruits more
EconRecruit(s, typeKey, r) ==
  unitIdCounter < 12 + MaxRecruits /\ Recruit(s, typeKey, r)

NextEcon ==
  \/ \E in \in EconJoinInputs : JoinGame(in[1], in[2])
  \/ \E s \in Sockets : Disconnect(s)
  \/ \E in \in EconRecruitInputs, r \in EconRecruitRows : EconRecruit(in[1], in[2], r)
  \/ TickBegin(MaxEconTicks)
  \/ TickUnit(0, {})
  \/ TickEnd

SpecEcon == Init /\ [][NextEcon]_vars


---------------------------------------------------------------------------
(* SpecDrain: recruitment at the limits of both counters.  A Supreme of    *)
(* each faction has joined (every unit is attended, so the AI fallback     *)
(* draws nothing) and DrainTicks ticks have brought each equipment counter *)
(* to 2000 + DrainTicks.  Then TAK has recruited DrainInf infantry and KIN *)
(* DrainTanks tanks: TAK is left with the manpower of two recruits and the *)
(* equipment of three infantry, KIN with the equipment of two tanks and    *)
(* manpower to spare.  From there the players of SpecEcon recruit and the  *)
(* match ticks: TAK runs out of manpower first, KIN out of equipment.      *)

DrainTicks == 3100
DrainInf == 48
DrainTanks == 15

\* n recruit commands of socket s, one after the other
RECURSIVE recruits(_, _, _, _, _)
recruits(w, s, typeKey, r, n) ==
  IF n = 0 THEN w
  ELSE recruits(recruit(w, s, typeKey, r), s, typeKey, r, n - 1)

Drained ==
  LET w1 == joinGame(Loaded, 1, Info(KIN, "Supreme"))
      w2 == joinGame(w1, 2, Info(TAK, "Supreme"))
      w3 == ticksQuiet(w2, DrainTicks)
      w4 == recruits(w3, 2, "inf", 4, DrainInf)
  IN  recruits(w4, 1, "tank", 4, DrainTanks)

MaxDrainTicks == 1

InitDrain == Start(Drained) /\ NoProbe

NextDrain ==
  \/ \E in \in EconJoinInputs : JoinGame(in[1], in[2])
  \/ \E s \in Sockets : Disconnect(s)
  \/ \E in \in EconRecruitInputs, r \in EconRecruitRows : Recruit(in[1], in[2], r)
  \/ TickBegin(MaxDrainTicks)
  \/ TickUnit(0, {})
  \/ TickEnd

SpecDrain == InitDrain /\ [][NextDrain]_vars

\* C5: a recruit changes the counters or the registry only when the issuer
\* is Supreme or Production of a faction with manpower >= 100 and equipment
\* >= the type's cost; and no counter of any faction is ever negative
C5_RecruitGuarded ==
  /\ [][\A in \in EconRecruitInputs, r \in EconRecruitRows :
          ((units' # units \/ countries' # countries) /\ Recruit(in[1], in[2], r)) =>
            LET p == PlayerOf(World, in[1])
            IN  /\ p.defined
                /\ p.role \in {"Supreme", "Production"}
                /\ p.faction \in Factions
                /\ countries[p.faction].mp >= 100
                /\ countries[p.faction].eq >= UNIT_TYPES[in[2]].cost]_vars
  /\ [](\A f \in Factions :
          countries[f].pp >= 0 /\ countries[f].mp >= 0 /\ countries[f].eq >= 0)

\* C5 witness: Supreme of TAK has recruited its fiftieth infantry and asks
\* for one more with manpower 0 and the equipment to pay for it; Production
\* of KIN has recruited a sixteenth and a seventeenth tank and asks for one
\* more with manpower left and less equipment than a tank costs.  Both
\* commands leave the state as it is.
C5_Witness ==
  /\ PlayerOf(World, 2) = Info(TAK, "Supreme")
  /\ countries[TAK].mp = 0
  /\ countries[TAK].eq >= UNIT_TYPES["inf"].cost
  /\ Cardinality({i \in DOMAIN units : units[i].faction = TAK}) = 6 + 50
  /\ PlayerOf(World, 1) = Info(KIN, "Production")
  /\ countries[KIN].mp >= 100
  /\ countries[KIN].eq < UNIT_TYPES["tank"].cost
  /\ Cardinality({i \in DOMAIN units : units[i].type = "tank"}) = 17
  /\ \A r \in EconRecruitRows :
       recruit(World, 2, "inf", r) = World /\ recruit(World, 1, "tank", r) = World

\* C6: the N-th unit spawned (seeded or recruited, both factions counted
\* together) is unit N of the registry and has assignment Marshal_k with
\* k = (N mod 6) + 1; no unit's id or assignment changes afterwards
C6_RoundRobin ==
  /\ [](/\ isRunning => unitIdCounter = Len(units)
        /\ \A i \in DOMAIN units :
             /\ units[i].id = i - 1
             /\ units[i].assignment = ROLES[((i - 1) % 6) + 3])
  /\ [][\A i \in DOMAIN units :
          /\ i \in DOMAIN units'
          /\ units'[i].id = units[i].id
          /\ units'[i].assignment = units[i].assignment]_vars

\* C6 witness: seven recruits of both factions have joined the twelve seeded
\* units; the last, N = 18, is a Marshal_1 unit
C6_Witness ==
  /\ Len(units) = 19
  /\ units[19].assignment = "Marshal_1"
  /\ units[18].assignment = "Marshal_6"
  /\ \E i, j \in 13..19 : units[i].faction = KIN /\ units[j].faction = TAK


---------------------------------------------------------------------------
(* SpecBattle: combat.  Both factions have a Supreme connected, so the AI  *)
(* fallback is silent.  Unit 0 (KIN) has marched from (2,2) to (9,2) and   *)
(* unit 6 (TAK) from (17,2) to (11,2); each is then ordered, at any tick,  *)
(* into the cell (10,2) that lies between them.                            *)

MarchTicks == 35

Marched ==
  LET w1 == joinGame(Loaded, 1, Info(KIN, "Supreme"))
      w2 == joinGame(w1, 2, Info(TAK, "Supreme"))
      w3 == orderMove(w2, 1, Payload(List(<<0>>), 9, 2))
      w4 == orderMove(w3, 2, Payload(List(<<6>>), MAP_W - 9, 2))
  IN  ticksQuiet(w4, MarchTicks)

BattleOrders ==
  { <<1, Payload(List(<<0>>), 10, 2)>>, <<2, Payload(List(<<6>>), 10, 2)>> }

MaxBattleTicks == 22

InitBattle == Start(Marched) /\ NoProbe

NextBattle ==
  \/ \E in \in BattleOrders : OrderMove(in[1], in[2])
  \/ TickBegin(MaxBattleTicks)
  \/ TickUnit(0, {})
  \/ TickEnd

SpecBattle == InitBattle /\ [][NextBattle]_vars


---------------------------------------------------------------------------
(* Claims on combat and cleanup, checked under SpecBattle                  *)

UnitIds(us) == {us[i].id : i \in DOMAIN us}

\* the step is the cleanup that ends a tick
CleanupStep == ~crashed /\ tickIdx = Len(units) + 1 /\ tickIdx' = 0

\* C7: a unit leaves the registry exactly when its hp is <= 0 at the cleanup
\* that ends a tick: the cleanup keeps the units with hp > 0, as they are and
\* in their order, and drops the others; no other step (a command handler, a
\* unit's turn in the loop) drops a unit; between ticks every unit has hp > 0
C7_RemovedExactlyAtCleanup ==
  /\ [](tickIdx = 0 => \A i \in DOMAIN units : Positive(units[i].hp))
  /\ [][IF CleanupStep
          THEN /\ UnitIds(units') = {units[i].id : i \in {j \in DOMAIN units : Positive(units[j].hp)}}
               /\ Len(units') = Cardinality(UnitIds(units'))
               /\ \A i \in DOMAIN units : \A k \in DOMAIN units' :
                    units'[k].id = units[i].id => units'[k] = units[i]
          ELSE UnitIds(units) \subseteq UnitIds(units')]_vars

\* C7 witness: between two ticks unit 0 (KIN), killed by unit 6, is gone and
\* the eleven others are there
C7_Witness ==
  /\ tickIdx = 0
  /\ ~crashed
  /\ UnitIds(units) = (0..11) \ {0}
  /\ units[6].id = 6
  /\ Tenths(units[6].hp) < 1000

\* the unit whose turn it is attacks: it is moving and an enemy stands on the
\* next cell of its path
Attacks(i) ==
  /\ ~crashed
  /\ tickIdx = i
  /\ i \in DOMAIN units
  /\ units[i].state = "moving"
  /\ Len(units[i].path) > 0
  /\ \E e \in DOMAIN units :
       /\ CellOf(units[e]) = units[i].path[1]
       /\ units[e].faction # units[i].faction

\* the enemy that is attacked: the first in the registry on that cell
Attacked(i) ==
  CHOOSE e \in DOMAIN units :
    /\ CellOf(units[e]) = units[i].path[1]
    /\ units[e].faction # units[i].faction
    /\ \A d \in 1..(e - 1) :
         ~(CellOf(units[d]) = units[i].path[1] /\ units[d].faction # units[i].faction)

\* C8: when the moving unit M whose turn it is finds an enemy E on the next
\* cell of its path, E loses 0.5 x M's attack (5 tenths per point), M loses
\* 0.2 x E's attack (2 tenths per point), hp read to the nearest tenth, M
\* keeps its cell and its path, and no other unit's hp changes; E does not strike in its own turn unless it
\* is itself moving into an enemy
C8_CombatDamage ==
  [][\A i \in DOMAIN units :
       (Attacks(i) /\ tickIdx' = i + 1) =>
         LET e == Attacked(i)
         IN  /\ Len(units') = Len(units)
             /\ Tenths(units'[e].hp) =
                  Tenths(units[e].hp) - 5 * UNIT_TYPES[units[i].type].atk
             /\ Tenths(units'[i].hp) =
                  Tenths(units[i].hp) - 2 * UNIT_TYPES[units[e].type].atk
             /\ units'[i].q = units[i].q
             /\ units'[i].r = units[i].r
             /\ units'[i].path = units[i].path
             /\ \A j \in DOMAIN units \ {i, e} : units'[j].hp = units[j].hp]_vars

\* C8 witness: one tick of combat between two infantry has ended: the mover,
\* unit 6, is at 100 - 2.4 and the defender, unit 0, at 100 - 6
C8_Witness ==
  /\ tickIdx = 0
  /\ Len(units) = 12
  /\ Tenths(units[7].hp) = 1000 - 24
  /\ Tenths(units[1].hp) = 1000 - 60
  /\ units[7].state = "moving"
  /\ units[7].path = <<CellOf(units[1])>>
  /\ \A j \in DOMAIN units \ {1, 7} : units[j].hp = Dbl(100)

\* C9: while a living enemy occupies the next cell of a moving unit's path,
\* the unit is in state Fighting after the tick and the tick leaves its
\* progress as it was.  (Violated: line 210 sets the progress to 0 and no
\* line assigns a state other than "idle" and "moving".)
C9_FightingKeepsProgress ==
  [][\A i \in DOMAIN units :
       (Attacks(i) /\ Positive(units[Attacked(i)].hp) /\ tickIdx' = i + 1) =>
         /\ units'[i].state = "Fighting"
         /\ units'[i].progress = units[i].progress]_vars


---------------------------------------------------------------------------
(* SpecPath: the pathfinder on the map as created.  A start cell from a    *)
(* sample of the grid (corners, edges, interior, rows of both parities)    *)
(* and any end cell are drawn; the one action calls findPath on them.      *)

PathStarts ==
  {HexId(q, r) : q \in {0, 1, 2, 10, MAP_W - 2, MAP_W - 1}, r \in {0, 1, 2, 5, MAP_H - 2, MAP_H - 1}}
PathEnds == 0..(NumHexes - 1)

\* pfPath before findPath has returned
Pending == <<NoHex, NoHex>>

InitPath ==
  /\ Start(Loaded)
  /\ pfStart \in PathStarts
  /\ pfEnd \in PathEnds
  /\ pfPath = Pending

FindPath ==
  /\ pfPath = Pending
  /\ pfPath' = findPathIn(createMap, pfStart, pfEnd)
  /\ UNCHANGED <<world, tickIdx, ticks, aiOrders, pfStart, pfEnd>>

NextPath == FindPath

SpecPath == InitPath /\ [][NextPath]_vars

\* the cells adjacent to h under getNeighbors
Adjacent(h) ==
  LET ns == getNeighborsIn(createMap, h) IN {ns[i] : i \in DOMAIN ns}

\* the hop distance to b from the cells of front, which are d hops from the
\* start, by whole levels
RECURSIVE HopsFrom(_, _, _, _)
HopsFrom(front, seen, b, d) ==
  IF b \in front THEN d
  ELSE IF front = {} THEN NumHexes
  ELSE LET next == UNION {Adjacent(h) : h \in front} \ seen
       IN  HopsFrom(next, seen \cup next, b, d + 1)

Hops(a, b) == HopsFrom({a}, {a}, b, 0)

\* the longest route findPath returns: a node with more than RangeLimit
\* cells behind it is not expanded
LongestRoute == RangeLimit + 1

\* route leads from a to b by steps between adjacent cells, a not included
IsRoute(route, a, b) ==
  /\ \A k \in DOMAIN route : route[k] # a
  /\ IF Len(route) = 0 THEN a = b ELSE route[Len(route)] = b
  /\ \A k \in DOMAIN route :
       route[k] \in Adjacent(IF k = 1 THEN a ELSE route[k - 1])

\* C10: for cells A and B of the 20x12 grid, findPath(A, B) is a route that
\* excludes A, ends at B (is empty when A = B), steps between cells adjacent
\* under getNeighbors, and has as many cells as the breadth-first hop distance
\* from A to B when that distance is at most 16; it is null when the distance
\* is more; the route from (2,2) to (5,2) has length 3
C10_ShortestRouteWithinRange ==
  pfPath # Pending =>
    /\ IF Hops(pfStart, pfEnd) <= LongestRoute
         THEN /\ pfPath # NoPath
              /\ IsRoute(pfPath, pfStart, pfEnd)
              /\ Len(pfPath) = Hops(pfStart, pfEnd)
         ELSE pfPath = NoPath
    /\ (pfStart = HexId(2, 2) /\ pfEnd = HexId(5, 2)) => Len(pfPath) = 3

\* C10 witness: findPath has returned a route of three cells from (2,2) to
\* (5,2)
C10_Witness ==
  /\ pfStart = HexId(2, 2)
  /\ pfEnd = HexId(5, 2)
  /\ pfPath # Pending
  /\ pfPath # NoPath
  /\ Len(pfPath) = 3
  /\ pfPath[3] = HexId(5, 2)


---------------------------------------------------------------------------
(* Claims on the economy and on the state tag, checked under SpecEcon and  *)
(* Spec                                                                    *)

\* the step is the start of a tick of a running match
RunningTickStarts == ~crashed /\ isRunning /\ tickIdx = 0 /\ tickIdx' = 1

\* C11 (as claimed): every tick of a running match strictly increases the
\* political points, the manpower and the equipment of both factions
C11_TickIncreasesAllCounters ==
  [][RunningTickStarts =>
       \A f \in Factions :
         /\ countries'[f].pp > countries[f].pp
         /\ countries'[f].mp > countries[f].mp
         /\ countries'[f].eq > countries[f].eq]_vars

\* C14 (as claimed): a unit is idle exactly when its path is empty, and a
\* moving unit has a non-empty path
C14_StateAgreesWithPath ==
  \A i \in DOMAIN units :
    /\ units[i].state = "idle" <=> Len(units[i].path) = 0
    /\ units[i].state = "moving" => Len(units[i].path) > 0


\* a connected player holds the unit's faction with role Supreme or the
\* unit's assignment
Staffed(u) ==
  \E k \in DOMAIN players :
    players[k].info.defined /\ Authorized(players[k].info, u)

\* the step is the turn of unit i in the tick's loop
TurnOf(i) == ~crashed /\ tickIdx = i /\ i \in DOMAIN units /\ tickIdx' = i + 1

\* C18: in a unit's turn of the tick the AI fallback gives a route only to
\* a unit that is idle and not staffed; an idle staffed unit keeps path and
\* state; an idle unit that is not staffed, whoever was connected before,
\* gets the route to the drawn cell of the enemy's spawn column when the
\* random test passes and findPath has a route; no other unit's path changes
C18_AIOnlyForUnstaffedIdle ==
  [][\A i \in DOMAIN units :
       TurnOf(i) =>
         LET u == units[i]
             v == units'[i]
             targetQ == IF u.faction = KIN THEN MAP_W - 2 ELSE 1
         IN  /\ Len(units') = Len(units)
             /\ (u.state = "idle" /\ Staffed(u)) =>
                  v.path = u.path /\ v.state = u.state
             /\ (v.path # u.path /\ (Len(u.path) = 0 \/ v.path # Tail(u.path))) =>
                  u.state = "idle" /\ ~Staffed(u)
             /\ (aiOrders' = aiOrders + 1) =>
                  /\ u.state = "idle" /\ ~Staffed(u)
                  /\ \E row \in AIRows :
                       OrderedTo(u, v, HexId(targetQ, row))
             /\ \A j \in DOMAIN units \ {i} : units'[j].path = units[j].path]_vars

\* C18 witness: the match is running and every player has disconnected;
\* unit 1 (KIN, at (2,3)), idle until its turn, has the AI's route to (18,3)
C18_Witness ==
  /\ isRunning
  /\ players = <<>>
  /\ aiOrders = 1
  /\ tickIdx = 3
  /\ units[2].state = "moving"
  /\ Len(units[2].path) = 16
  /\ units[2].path[16] = HexId(MAP_W - 2, 3)
  /\ units[1].state = "idle"


---------------------------------------------------------------------------
(* SpecWar: positions, ownership and progress.  Both Supremes are          *)
(* connected (the AI fallback is silent).  Supreme of KIN has recruited a  *)
(* tank, which came out on (1,3), and has sent it to (9,3) and unit 0 to   *)
(* (9,2); Supreme of TAK has sent unit 6 up to (17,1) and along row 1 to   *)
(* KIN's spawn column at (1,1), and unit 7 to (11,3).  From there: orders  *)
(* across the border, one more recruit on row 1, a third player joining    *)
(* and leaving, ticks.                                                     *)

RaidTicks == 85

Raided ==
  LET w1 == joinGame(Loaded, 1, Info(KIN, "Supreme"))
      w2 == joinGame(w1, 2, Info(TAK, "Supreme"))
      w3 == recruit(w2, 1, "tank", 3)
      w4 == orderMove(w3, 1, Payload(List(<<0>>), 9, 2))
      w5 == orderMove(w4, 1, Payload(List(<<12>>), 9, 3))
      w6 == orderMove(w5, 2, Payload(List(<<7>>), MAP_W - 9, 3))
      w7 == orderMove(w6, 2, Payload(List(<<6>>), MAP_W - 3, 1))
      w8 == orderMove(ticksQuiet(w7, 5), 2, Payload(List(<<6>>), 1, 1))
  IN  ticksQuiet(w8, RaidTicks)

WarJoinInputs == { <<3, Info(KIN, "Production")>> }

\* the tank and unit 0 into TAK's cell (10,2); unit 7 into the same cell;
\* the tank and unit 7 dealt over (10,3) and (10,2)
WarOrders ==
  { <<1, Payload(List(<<0, 12>>), 10, 2)>>,
    <<2, Payload(List(<<7>>), 10, 2)>> }

WarFrontOrders ==
  { <<1, FrontPayload(List(<<12, 0>>), List(<<HexId(10, 3), HexId(10, 2)>>))>> }

WarRecruitRows == {1}

MaxWarTicks == 6
MaxWarUnits == 14

WarRecruit(s, typeKey, r) == Len(units) < MaxWarUnits /\ Recruit(s, typeKey, r)

InitWar == Start(Raided) /\ NoProbe

NextWar ==
  \/ \E in \in WarJoinInputs : JoinGame(in[1], in[2])
  \/ Disconnect(3)
  \/ \E r \in WarRecruitRows : WarRecruit(3, "inf", r)
  \/ \E in \in WarOrders : OrderMove(in[1], in[2])
  \/ \E in \in WarFrontOrders : OrderFrontline(in[1], in[2])
  \/ TickBegin(MaxWarTicks)
  \/ TickUnit(0, {})
  \/ TickEnd

SpecWar == InitWar /\ [][NextWar]_vars


---------------------------------------------------------------------------
(* Claims on positions, ownership and progress, checked under SpecWar      *)

\* C13: every unit stands on a cell of the grid: 0 <= q < 20, 0 <= r < 12
C13_UnitsOnTheGrid ==
  \A i \in DOMAIN units :
    /\ units[i].q \in 0..(MAP_W - 1)
    /\ units[i].r \in 0..(MAP_H - 1)
    /\ CellOf(units[i]) + 1 \in DOMAIN hexes

\* C13 witness: the recruit on row 1 has been spawned on (1,1) and the tank
\* has moved across the border into (10,2)
C13_Witness ==
  /\ Len(units) = 14
  /\ units[14].q = 1 /\ units[14].r = 1
  /\ \E i \in DOMAIN units :
       units[i].type = "tank" /\ units[i].q = 10 /\ units[i].r = 2

\* C15: a cell's owner changes in a step only if the step is the turn of a
\* unit that completes a move into that cell, and the new owner is that
\* unit's faction; the grid has the same cells afterwards.  Handlers, spawns
\* and combat are steps in which no unit completes a move
C15_OwnerChangesByMoveOnly ==
  [][(Len(hexes) > 0) =>
       /\ Len(hexes') = Len(hexes)
       /\ \A c \in DOMAIN hexes :
            hexes'[c] # hexes[c] =>
              \E i \in DOMAIN units :
                /\ TurnOf(i)
                /\ CellOf(units[i]) # c - 1
                /\ CellOf(units'[i]) = c - 1
                /\ hexes'[c] = units[i].faction]_vars

\* C15 witness: (10,2), a cell of TAK's half, belongs to KIN and a KIN unit
\* stands on it; (2,1), a cell of KIN's half, belongs to TAK, whose unit 6
\* passed through it
C15_Witness ==
  /\ hexes[HexId(10, 2) + 1] = KIN
  /\ \E i \in DOMAIN units : units[i].faction = KIN /\ CellOf(units[i]) = HexId(10, 2)
  /\ hexes[HexId(2, 1) + 1] = TAK
  /\ ticks > 0

\* C16: between ticks every unit's progress is in [0,1) (0..9 tenths); a
\* unit changes cell only in its own turn of a tick, of which it has one
\* per tick, and then to a cell adjacent to the one it stood on
C16_OneCellPerTick ==
  /\ [](tickIdx = 0 => \A i \in DOMAIN units : units[i].progress \in 0..9)
  /\ [][\A i \in DOMAIN units :
          i \in DOMAIN units' /\ units'[i].id = units[i].id =>
            \/ CellOf(units'[i]) = CellOf(units[i])
            \/ /\ TurnOf(i)
               /\ CellOf(units'[i]) \in Adjacent(CellOf(units[i]))]_vars

\* C16 witness: between two ticks the tank, whose progress went 0.4, 0.8,
\* 1.2, stands on (10,2), one cell from (9,3), with progress 0, and unit 0,
\* three ticks on its way, has progress 0.6
C16_Witness ==
  /\ tickIdx = 0
  /\ ticks = 3
  /\ \E i \in DOMAIN units :
       /\ units[i].type = "tank"
       /\ CellOf(units[i]) = HexId(10, 2)
       /\ units[i].progress = 0
  /\ units[1].id = 0
  /\ units[1].progress = 6

\* C19 (as claimed): no two units of opposing factions stand on the same
\* cell
C19_NoEnemiesOnOneCell ==
  \A i, j \in DOMAIN units :
    units[i].faction # units[j].faction => CellOf(units[i]) # CellOf(units[j])


---------------------------------------------------------------------------
(* SpecDuel: two units striking each other.  After the march unit 6 (TAK)  *)
(* has entered (10,2); unit 0 (KIN), on (9,2), has been ordered into that  *)
(* cell and has struck unit 6 for ten ticks.  Supreme of TAK now orders    *)
(* unit 6 into (9,2), at any tick.                                         *)

DuelTicks == 10

Duelling ==
  LET w1 == orderMove(Marched, 2, Payload(List(<<6>>), 10, 2))
      w2 == orderMove(ticksQuiet(w1, 5), 1, Payload(List(<<0>>), 10, 2))
  IN  ticksQuiet(w2, DuelTicks)

DuelOrders == { <<2, Payload(List(<<6>>), 9, 2)>> }

MaxDuelTicks == 8

InitDuel == Start(Duelling) /\ NoProbe

NextDuel ==
  \/ \E in \in DuelOrders : OrderMove(in[1], in[2])
  \/ TickBegin(MaxDuelTicks)
  \/ TickUnit(0, {})
  \/ TickEnd

SpecDuel == InitDuel /\ [][NextDuel]_vars

\* C20 (as claimed): a unit whose hp has dropped to 0 or less earlier in the
\* tick does nothing in its turn: no unit's hp, cell, path or progress and no
\* cell's owner changes
C20_DeadUnitsDoNotAct ==
  [][\A i \in DOMAIN units :
       (TurnOf(i) /\ ~Positive(units[i].hp)) => units' = units /\ hexes' = hexes]_vars

---------------------------------------------------------------------------
(* SpecIdle and SpecFair: unattended play.  KIN's Production player and   *)
(* its Marshals 2 to 6 and TAK's Supreme are connected; KIN's first        *)
(* division (unit 0 on (2,2) and the recruit, unit 12, on the spawn        *)
(* column) has no player.  Nobody sends an order or recruits any more: the *)
(* interval timer keeps firing and the AI fallback draws for the           *)
(* unattended idle units.  SpecIdle starts when the recruit has arrived,   *)
(* SpecFair when unit 0 has marched up to TAK's line.                      *)

Unattended ==
  LET w1 == joinGame(Loaded, 1, Info(KIN, "Production"))
      w2 == joinGame(w1, 2, Info(KIN, "Marshal_2"))
      w3 == joinGame(w2, 3, Info(KIN, "Marshal_3"))
      w4 == joinGame(w3, 4, Info(KIN, "Marshal_4"))
      w5 == joinGame(w4, 5, Info(KIN, "Marshal_5"))
      w6 == joinGame(w5, 6, Info(KIN, "Marshal_6"))
      w7 == joinGame(w6, 7, Info(TAK, "Supreme"))
  IN  recruit(w7, 1, "inf", 5)

\* the rows drawn for Math.floor(Math.random() * MAP_H)
FairRows == {2, 3}

MaxIdleTicks == 8
MaxIdleAI == 2

InitIdle == Start(Unattended) /\ NoProbe

NextIdle ==
  \/ TickBegin(MaxIdleTicks)
  \/ TickUnit(MaxIdleAI, FairRows)
  \/ TickEnd

SpecIdle == InitIdle /\ [][NextIdle]_vars

\* a tick in which unit 0, the first of the forEach, draws row 2 and is sent
\* to (18,2) along row 2, and SiegeMarch ticks more: unit 0 is about to step
\* onto (16,2), and the next cell of its path, (17,2), is held by TAK's unit 6
SiegeMarch == 68

Besieging ==
  LET w1 == tickResources(Unattended)
      w2 == tickUnitsQuiet(tickUnit(w1, 1, AI(2)), 2)
  IN  ticksQuiet(cleanupDead(w2), SiegeMarch)

MaxFairTicks == 26
MaxFairAI == 2

InitFair == Start(Besieging) /\ NoProbe

NextFair ==
  \/ TickBegin(MaxFairTicks)
  \/ TickUnit(MaxFairAI, FairRows)
  \/ TickEnd

\* setInterval: the timer keeps firing
SpecFair == InitFair /\ [][NextFair]_vars /\ WF_vars(NextFair)

---------------------------------------------------------------------------
(* Claims on unattended play, checked under SpecIdle and SpecFair          *)

Alive(id) == \E i \in DOMAIN units : units[i].id = id

TheUnit(id) == units[CHOOSE i \in DOMAIN units : units[i].id = id]

\* the AI fallback's draw of row sends unit u on its way
SetsOff(u, row) ==
  findPath(World, getHex(World, u.q, u.r),
           getHex(World, IF u.faction = KIN THEN MAP_W - 2 ELSE 1, row)) # NoPath

\* C12 (as claimed): a unit that is alive, idle and without a player of its
\* faction holding Supreme or its division leaves idle in the end, wherever
\* it stands.  While it is idle it keeps its cell, and fair draws give it
\* every row again and again, so it sets off exactly when the draw of some
\* row sends it on its way
C12_UnattendedIdleUnitsSetOff ==
  \A i \in DOMAIN units :
    (~crashed /\ units[i].state = "idle" /\ ~Staffed(units[i])) =>
      \E row \in 0..(MAP_H - 1) : SetsOff(units[i], row)

\* the cell on which unit id stands when unattended play begins
Post(id) ==
  CellOf(Unattended.units[CHOOSE i \in DOMAIN Unattended.units :
                            Unattended.units[i].id = id])

\* unit m is moving and the next cell of its path holds the idle enemy e
Blocked(m, e) ==
  /\ Alive(m) /\ Alive(e)
  /\ TheUnit(m).faction # TheUnit(e).faction
  /\ TheUnit(m).state = "moving"
  /\ Len(TheUnit(m).path) > 0
  /\ TheUnit(m).path[1] = CellOf(TheUnit(e))
  /\ TheUnit(e).state = "idle"
  /\ CellOf(TheUnit(e)) = Post(e)

Resolved(m, e) ==
  ~Alive(m) \/ (~Alive(e) /\ CellOf(TheUnit(m)) = Post(e))

\* with no orders sent, only the units without a player (0 and 12) are ever
\* moving, and the enemies they can meet are TAK's units 6 to 11
Movers == {0, 12}
Holders == 6..11

\* the ticks it takes at most to remove an idle infantry unit (17 strikes of
\* 6 hp) and to step onto its cell (5 ticks)
SiegeTicks == 22

\* C17: once a moving unit m is blocked by an idle enemy e on the next cell
\* of its path, the engagement ends: in the end m has been removed, or e has
\* been removed and m has moved onto the cell e held (for every engagement
\* that is on while SiegeTicks ticks or more are still to come)
C17_EngagementEnds ==
  \A m \in Movers, e \in Holders :
    (Blocked(m, e) /\ ticks + SiegeTicks <= MaxFairTicks) ~> Resolved(m, e)

\* unit 6 has been removed and unit 0 stands on (17,2), the cell it held
C17_Witness ==
  /\ ~crashed
  /\ Alive(0) /\ ~Alive(6)
  /\ CellOf(TheUnit(0)) = Post(6)
  /\ Tenths(TheUnit(0).hp) = 10 * UNIT_TYPES.inf.hp - 17 * 24

===========================================================================
